---- MODULE Spec2Model ----
(***************************************************************************)
(* Stock Manager (main.py): a command dispatcher over one in-memory table. *)
(* Text is modelled as sequences of one-character strings, so that strip,  *)
(* split, endswith, int() and the pattern search are computed, not assumed.*)
(* Numbers are rationals n/d; every number read from a file is an integer  *)
(* literal, so a table cell always has d = 1 and only a mean can have      *)
(* d > 1.                                                                  *)
(***************************************************************************)
EXTENDS Integers, Sequences, FiniteSets, TLC

VARIABLES data, alive, cmd, out, shown, summary, raised, disk

vars == <<data, alive, cmd, out, shown, summary, raised, disk>>

\* Longest directory listing os.listdir is taken to return.
MaxFiles == 2

----------------------------------------------------------------------------
(* Text helpers: the str methods the handlers call.                        *)

Upper == <<"A","B","C","D","E","F","G","H","I","J","K","L","M",
           "N","O","P","Q","R","S","T","U","V","W","X","Y","Z">>
Lowercase == <<"a","b","c","d","e","f","g","h","i","j","k","l","m",
               "n","o","p","q","r","s","t","u","v","w","x","y","z">>
Digits == <<"0","1","2","3","4","5","6","7","8","9">>

\* Code-point order of the characters the model uses.
Ascii == <<"\t"," ","(","+","-",".">> \o Digits \o <<"=">> \o Upper
           \o <<"_">> \o Lowercase

Code(c) == CHOOSE i \in 1..Len(Ascii) : Ascii[i] = c

Whitespace == {" ", "\t"}

\* str.lower on one character
LowerChar(c) ==
  IF \E i \in 1..26 : Upper[i] = c
  THEN Lowercase[CHOOSE i \in 1..26 : Upper[i] = c]
  ELSE c

\* str.strip()
Strip(s) ==
  LET keep == {i \in 1..Len(s) : s[i] \notin Whitespace}
  IN  IF keep = {} THEN <<>>
      ELSE LET lo == CHOOSE i \in keep : \A j \in keep : i <= j
               hi == CHOOSE i \in keep : \A j \in keep : j <= i
           IN  SubSeq(s, lo, hi)

\* str.endswith(suffix), case-sensitive
EndsWith(s, suffix) ==
  /\ Len(s) >= Len(suffix)
  /\ SubSeq(s, Len(s) - Len(suffix) + 1, Len(s)) = suffix

\* Fault: split(sep, 1), which cuts at the first separator only
Split_Once(s, sep) ==
  IF \A i \in 1..Len(s) : s[i] # sep THEN <<s>>
  ELSE LET p == CHOOSE i \in 1..Len(s) :
                  s[i] = sep /\ \A j \in 1..(i-1) : s[j] # sep
       IN  <<SubSeq(s, 1, p - 1), SubSeq(s, p + 1, Len(s))>>

\* str.split(sep) for a one-character separator
RECURSIVE Split(_, _)
Split(s, sep) ==
  IF \A i \in 1..Len(s) : s[i] # sep THEN <<s>>
  ELSE LET p == CHOOSE i \in 1..Len(s) :
                  s[i] = sep /\ \A j \in 1..(i-1) : s[j] # sep
       IN  <<SubSeq(s, 1, p - 1)>> \o Split(SubSeq(s, p + 1, Len(s)), sep)

DigitVal(c) == (CHOOSE i \in 1..10 : Digits[i] = c) - 1
IsDigit(c) == \E i \in 1..10 : Digits[i] = c

RECURSIVE DigitsToInt(_)
DigitsToInt(s) ==
  IF s = <<>> THEN 0
  ELSE 10 * DigitsToInt(SubSeq(s, 1, Len(s) - 1)) + DigitVal(s[Len(s)])

\* int(text): surrounding whitespace, an optional sign, at least one digit.
\* ok = FALSE stands for ValueError.
ParseInt(text) ==
  LET t == Strip(text)
      signed == t # <<>> /\ t[1] \in {"+", "-"}
      body == IF signed THEN Tail(t) ELSE t
  IN  IF body # <<>> /\ \A i \in 1..Len(body) : IsDigit(body[i])
      THEN [ok |-> TRUE,
            n |-> IF signed /\ t[1] = "-" THEN 0 - DigitsToInt(body)
                  ELSE DigitsToInt(body)]
      ELSE [ok |-> FALSE, n |-> 0]

RECURSIVE NatToStr(_)
NatToStr(n) ==
  IF n < 10 THEN <<Digits[n + 1]>>
  ELSE NatToStr(n \div 10) \o <<Digits[(n % 10) + 1]>>

\* str(n) for an integer
IntToStr(n) == IF n < 0 THEN <<"-">> \o NatToStr(0 - n) ELSE NatToStr(n)

----------------------------------------------------------------------------
(* Cell values.  k is the Python type of the cell: "int", "float" (the     *)
(* rational n/d), "str" (the text s) or "nan" (the absent marker).         *)

IntV(i) == [k |-> "int", n |-> i, d |-> 1, s |-> <<>>]
FloatV(i, j) == [k |-> "float", n |-> i, d |-> j, s |-> <<>>]
StrV(t) == [k |-> "str", n |-> 0, d |-> 1, s |-> t]
NaN == [k |-> "nan", n |-> 0, d |-> 1, s |-> <<>>]

IsNum(v) == v.k \in {"int", "float"}

category == <<"c","a","t","e","g","o","r","y">>
quantity == <<"q","u","a","n","t","i","t","y">>
unit_price == <<"u","n","i","t","_","p","r","i","c","e">>
TotalQuantity == <<"T","o","t","a","l"," ","Q","u","a","n","t","i","t","y">>
AveragePrice == <<"A","v","e","r","a","g","e"," ","P","r","i","c","e">>

\* pd.DataFrame(): no columns, no rows
EmptyFrame == [columns |-> <<>>, rows |-> <<>>]

\* Fault: a table counts as empty only when it has no column
IsEmpty_NoColumns(df) == Len(df.columns) = 0

\* DataFrame.empty: some axis has length 0
IsEmpty(df) == Len(df.columns) = 0 \/ Len(df.rows) = 0

ColumnSet(df) == {df.columns[i] : i \in 1..Len(df.columns)}

\* The values of one column, top to bottom
Column(df, col) == [i \in 1..Len(df.rows) |-> df.rows[i][col]]

\* dtype pandas gives a column holding these values
Dtype(vals) ==
  IF \E i \in 1..Len(vals) : vals[i].k = "str" THEN "object"
  ELSE IF \E i \in 1..Len(vals) : vals[i].k \in {"nan", "float"} THEN "float64"
  ELSE "int64"

\* An integer stored in a float64 column is a float
Upcast(v, dtype) ==
  IF dtype = "float64" /\ v.k = "int" THEN FloatV(v.n, 1) ELSE v

\* Every column brought to its dtype
Normalise(df) ==
  [columns |-> df.columns,
   rows |-> [i \in 1..Len(df.rows) |->
               [c \in ColumnSet(df) |->
                  Upcast(df.rows[i][c], Dtype(Column(df, c)))]]]

----------------------------------------------------------------------------
(* The files a directory can hold.  A file is its name, whether its bytes  *)
(* decode, its header line and its data lines, each line a list of fields. *)

csvExt == <<".","c","s","v">>

FileA == [name |-> <<"a">> \o csvExt, utf8 |-> TRUE,
          header |-> <<category, quantity, unit_price>>,
          lines |-> << <<<<"B">>, <<"1","0">>, <<"5">>>>,
                       <<<<"A">>, <<"2","0">>, <<"1","0">>>>,
                       <<<<"B">>, <<"3","0">>, <<"1","5">>>> >>]

\* non-numeric quantities, and no unit_price column
FileB == [name |-> <<"b">> \o csvExt, utf8 |-> TRUE,
          header |-> <<category, quantity>>,
          lines |-> << <<<<"C">>, <<"x">>>>,
                       <<<<"A">>, <<"y">>>> >>]

\* a header line and no data line
FileH == [name |-> <<"h">> \o csvExt, utf8 |-> TRUE,
          header |-> <<category, quantity, unit_price>>,
          lines |-> <<>>]

\* zero bytes
FileE == [name |-> <<"e">> \o csvExt, utf8 |-> TRUE,
          header |-> <<>>, lines |-> <<>>]

\* a data line with more fields than the header
FileM == [name |-> <<"m">> \o csvExt, utf8 |-> TRUE,
          header |-> <<category, quantity>>,
          lines |-> << <<<<"A">>, <<"1">>>>,
                       <<<<"A">>, <<"2">>, <<"3">>>> >>]

\* a well-formed table under an upper-case extension
FileU == [name |-> <<"u",".","C","S","V">>, utf8 |-> TRUE,
          header |-> <<category, quantity, unit_price>>,
          lines |-> << <<<<"Z">>, <<"9">>, <<"9">>>> >>]

\* bytes that are not valid UTF-8
FileX == [name |-> <<"x">> \o csvExt, utf8 |-> FALSE,
          header |-> <<category>>, lines |-> << <<<<"A">>>> >>]

Files == <<FileA, FileB, FileH, FileE, FileM, FileU, FileX>>

\* What os.listdir can return: the files in any order, no file twice
Listings ==
  UNION {{l \in [1..k -> 1..Len(Files)] :
            \A i, j \in 1..k : i # j => l[i] # l[j]} : k \in 0..MaxFiles}

\* Field j of a data line; a short line is padded with empty fields
Field(line, j) == IF j <= Len(line) THEN line[j] ELSE <<>>

IsIntText(t) == t # <<>> /\ \A i \in 1..Len(t) : IsDigit(t[i])

\* pd.read_csv type inference for column j of a file
InferCell(f, i, j) ==
  LET t == Field(f.lines[i], j)
      texts == {Field(f.lines[r], j) : r \in 1..Len(f.lines)}
      numeric == \A x \in texts : x = <<>> \/ IsIntText(x)
  IN  IF t = <<>> THEN NaN
      ELSE IF ~numeric THEN StrV(t)
      ELSE IF <<>> \in texts THEN FloatV(DigitsToInt(t), 1)
      ELSE IntV(DigitsToInt(t))

\* pd.read_csv(file_path): the outcome "ok" with the frame, or the
\* exception raised.  (An implicit index column is not modelled.)
ReadCsv(f) ==
  IF ~f.utf8 THEN [err |-> "UnicodeDecodeError", frame |-> EmptyFrame]
  ELSE IF f.header = <<>>
  THEN [err |-> "EmptyDataError", frame |-> EmptyFrame]
  ELSE IF \E i \in 1..Len(f.lines) : Len(f.lines[i]) > Len(f.header)
  THEN [err |-> "ParserError", frame |-> EmptyFrame]
  ELSE [err |-> "ok",
        frame |-> [columns |-> f.header,
                   rows |-> [i \in 1..Len(f.lines) |->
                     [c \in {f.header[j] : j \in 1..Len(f.header)} |->
                        InferCell(f, i,
                          CHOOSE j \in 1..Len(f.header) : f.header[j] = c)]]]]

\* Columns of the frames in order of first appearance
RECURSIVE UnionColumns(_)
UnionColumns(frames) ==
  IF frames = <<>> THEN <<>>
  ELSE LET before == UnionColumns(SubSeq(frames, 1, Len(frames) - 1))
           last == frames[Len(frames)].columns
       IN  before \o SelectSeq(last,
             LAMBDA c : \A i \in 1..Len(before) : before[i] # c)

RECURSIVE StackRows(_, _)
StackRows(frames, cols) ==
  IF frames = <<>> THEN <<>>
  ELSE LET f == frames[1]
       IN  [i \in 1..Len(f.rows) |->
              [c \in cols |-> IF c \in ColumnSet(f) THEN f.rows[i][c] ELSE NaN]]
           \o StackRows(Tail(frames), cols)

\* pd.concat(frames, ignore_index=True)
Concat(frames) ==
  LET cols == UnionColumns(frames)
  IN  Normalise([columns |-> cols,
                 rows |-> StackRows(frames, {cols[i] : i \in 1..Len(cols)})])

----------------------------------------------------------------------------
(* Console output: one record per error_output / success_output /          *)
(* info_output call; what names the file, column or path in the message.   *)

Msg(text, what) == [msg |-> text, what |-> what]

NoDataMsg == Msg("No data available. Please add data first.", <<>>)

\* The command just dispatched, with what the environment answered
Cmd(name, text) ==
  [name |-> name, text |-> text, isdir |-> FALSE, listing |-> <<>>,
   io |-> "none", written |-> 0]

----------------------------------------------------------------------------
(* do_add_data                                                             *)

\* files = [f for f in os.listdir(directory) if f.endswith('.csv')]
CsvFiles(listing) ==
  SelectSeq(listing, LAMBDA i : EndsWith(Files[i].name, csvExt))

\* The for loop over files: the frames appended, the messages printed and
\* the exception that left the loop, if any
\* pd.read_csv of every file (evaluated once)
Parsed == [i \in 1..Len(Files) |-> ReadCsv(Files[i])]

RECURSIVE LoadLoop(_)
LoadLoop(files) ==
  IF files = <<>> THEN [frames |-> <<>>, out |-> <<>>, raised |-> "none"]
  ELSE LET f == Files[files[1]]
           r == Parsed[files[1]]
           rest == LoadLoop(Tail(files))
       IN  IF r.err = "ok"
           THEN [frames |-> <<r.frame>> \o rest.frames,
                 out |-> <<Msg("Successfully loaded", f.name)>> \o rest.out,
                 raised |-> rest.raised]
           ELSE IF r.err \in {"EmptyDataError", "ParserError"}
           THEN [frames |-> rest.frames,
                 out |-> <<Msg("Error loading", f.name)>> \o rest.out,
                 raised |-> rest.raised]
           ELSE [frames |-> <<>>, out |-> <<>>, raised |-> r.err]

\* Faults of the merge: the table assigned even when nothing parsed, and the
\* new frames appended to the table instead of replacing it
MergedData_Always(frames, old) == Concat(frames)

MergedData_Append(frames, old) ==
  IF frames # <<>> THEN Concat(<<old>> \o frames) ELSE old

\* if frames: self.data = pd.concat(frames, ignore_index=True)
MergedData(frames, old) == IF frames # <<>> THEN Concat(frames) ELSE old

do_add_data(isdir, listing) ==
  LET files == CsvFiles(listing)
      loop == LoadLoop(files)
  IN
  /\ alive
  /\ cmd' = [Cmd("add_data", <<>>) EXCEPT !.isdir = isdir, !.listing = listing]
  /\ shown' = <<>>
  /\ summary' = <<>>
  /\ UNCHANGED disk
  /\ IF ~isdir
     THEN /\ out' = <<Msg("Directory not found.", <<>>)>>
          /\ UNCHANGED <<data, alive, raised>>
     ELSE IF files = <<>>
     THEN /\ out' = <<Msg("No CSV files found.", <<>>)>>
          /\ UNCHANGED <<data, alive, raised>>
     ELSE IF loop.raised # "none"
     THEN /\ out' = loop.out
          /\ raised' = loop.raised
          /\ alive' = FALSE
          /\ UNCHANGED data
     ELSE /\ data' = MergedData(loop.frames, data)
          /\ out' = loop.out \o
               <<IF loop.frames # <<>>
                 THEN Msg("All files have been merged.", <<>>)
                 ELSE Msg("No valid data loaded.", <<>>)>>
          /\ UNCHANGED <<alive, raised>>

----------------------------------------------------------------------------
(* do_query                                                                *)

nanText == <<"n","a","n">>

\* Series.astype(str) on one cell
Str(v) ==
  CASE v.k = "int" -> IntToStr(v.n)
    [] v.k = "float" -> IntToStr(v.n) \o <<".","0">>
    [] v.k = "str" -> v.s
    [] OTHER -> nanText

\* re.compile(pat) raises re.error: an opening parenthesis never closed.
\* The pattern language modelled is literal characters, "." and "(".
PatternError(pat) == \E i \in 1..Len(pat) : pat[i] = "("

\* One pattern character against one character, under re.IGNORECASE
AtomMatches(a, c) == a = "." \/ LowerChar(a) = LowerChar(c)

\* re.search(pat, text, flags=re.IGNORECASE) finds a match
Search(pat, text) ==
  \E off \in 0..(Len(text) - Len(pat)) :
    \A j \in 1..Len(pat) : AtomMatches(pat[j], text[off + j])

\* self.data[column].astype(str).str.contains(value, case=False, na=False)
Contains(v, value) == Search(value, Str(v))

\* self.data[mask]
QueryRows(df, column, value) ==
  SelectSeq(df.rows, LAMBDA r : Contains(r[column], value))

do_query(condition) ==
  LET parts == Split(condition, "=")
      column == Strip(parts[1])
      value == Strip(parts[2])
      result == QueryRows(data, column, value)
  IN
  /\ alive
  /\ cmd' = Cmd("query", condition)
  /\ summary' = <<>>
  /\ UNCHANGED <<data, disk>>
  /\ IF IsEmpty(data)
     THEN /\ out' = <<NoDataMsg>>
          /\ shown' = <<>>
          /\ UNCHANGED <<alive, raised>>
     ELSE IF Len(parts) # 2
     THEN /\ out' = <<Msg("Incorrect format. Use 'query <column=value>'.", <<>>)>>
          /\ shown' = <<>>
          /\ UNCHANGED <<alive, raised>>
     ELSE IF column \notin ColumnSet(data)
     THEN /\ out' = <<Msg("Column not found.", column)>>
          /\ shown' = <<>>
          /\ UNCHANGED <<alive, raised>>
     ELSE IF PatternError(value)
     THEN /\ out' = <<>>
          /\ shown' = <<>>
          /\ raised' = "re.error"
          /\ alive' = FALSE
     ELSE /\ shown' = result
          /\ out' = IF result = <<>>
                    THEN <<Msg("No matching results.", <<>>)>>
                    ELSE <<Msg("result.to_string()", <<>>)>>
          /\ UNCHANGED <<alive, raised>>

----------------------------------------------------------------------------
(* do_generate                                                             *)

necessary_columns == {category, quantity, unit_price}

defaultReport == <<"s","u","m","m","a","r","y","_","r","e","p","o","r","t">>
                   \o csvExt

RECURSIVE Gcd(_, _)
Gcd(a, b) == IF b = 0 THEN a ELSE Gcd(b, a % b)

RECURSIVE SumN(_)
SumN(vals) == IF vals = <<>> THEN 0 ELSE vals[1].n + SumN(Tail(vals))

RECURSIVE Join(_)
Join(vals) == IF vals = <<>> THEN <<>> ELSE vals[1].s \o Join(Tail(vals))

\* Text order by code point
RECURSIVE TextLess(_, _)
TextLess(a, b) ==
  IF b = <<>> THEN FALSE
  ELSE IF a = <<>> THEN TRUE
  ELSE IF a[1] # b[1] THEN Code(a[1]) < Code(b[1])
  ELSE TextLess(Tail(a), Tail(b))

\* Order of group keys: numbers before text
KeyLess(a, b) ==
  IF IsNum(a) /\ IsNum(b) THEN a.n * b.d < b.n * a.d
  ELSE IF IsNum(a) THEN TRUE
  ELSE IF IsNum(b) THEN FALSE
  ELSE TextLess(a.s, b.s)

RECURSIVE SortKeys(_)
SortKeys(keys) ==
  IF keys = {} THEN <<>>
  ELSE LET m == CHOOSE x \in keys : \A y \in keys \ {x} : KeyLess(x, y)
       IN  <<m>> \o SortKeys(keys \ {m})

\* Distinct values of a sequence in order of first appearance
RECURSIVE Distinct(_)
Distinct(vals) ==
  IF vals = <<>> THEN <<>>
  ELSE LET before == Distinct(SubSeq(vals, 1, Len(vals) - 1))
           v == vals[Len(vals)]
       IN  IF \E i \in 1..Len(before) : before[i] = v THEN before
           ELSE Append(before, v)

\* Fault: groupby(..., sort=False), the keys in order of first appearance
GroupKeys_Unsorted(df) ==
  SelectSeq(Distinct(Column(df, category)), LAMBDA v : v # NaN)

\* groupby('category'): the group keys, absent keys dropped, sorted
GroupKeys(df) ==
  SortKeys({df.rows[i][category] : i \in 1..Len(df.rows)} \ {NaN})

\* 'sum' over one group of a column of the given dtype; err = TRUE is
\* TypeError (a number added to text)
GroupSum(vals, dtype) ==
  LET present == SelectSeq(vals, LAMBDA v : v.k # "nan")
      texts == SelectSeq(present, LAMBDA v : v.k = "str")
  IN  IF texts = <<>>
      THEN [err |-> FALSE,
            v |-> IF dtype = "int64"
                     \/ (dtype = "object"
                         /\ \A i \in 1..Len(present) : present[i].k = "int")
                  THEN IntV(SumN(present))
                  ELSE FloatV(SumN(present), 1)]
      ELSE IF Len(texts) = Len(present)
      THEN [err |-> FALSE, v |-> StrV(Join(texts))]
      ELSE [err |-> TRUE, v |-> NaN]

\* 'mean' over one group: absent values are left out; text cannot be averaged
GroupMean(vals) ==
  LET present == SelectSeq(vals, LAMBDA v : v.k # "nan")
      total == SumN(present)
      g == Gcd(IF total < 0 THEN 0 - total ELSE total, Len(present))
  IN  IF \E i \in 1..Len(present) : present[i].k = "str"
      THEN [err |-> TRUE, v |-> NaN]
      ELSE IF present = <<>> THEN [err |-> FALSE, v |-> NaN]
      ELSE [err |-> FALSE, v |-> FloatV(total \div g, Len(present) \div g)]

\* self.data.groupby('category').agg({...}).rename(...): one row per key
Summarise(df) ==
  LET keys == GroupKeys(df)
      group(key) == SelectSeq(df.rows, LAMBDA r : r[category] = key)
      col(key, c) == [i \in 1..Len(group(key)) |-> group(key)[i][c]]
      total(key) == GroupSum(col(key, quantity), Dtype(Column(df, quantity)))
      mean(key) == GroupMean(col(key, unit_price))
  IN  [err |-> \E i \in 1..Len(keys) : total(keys[i]).err \/ mean(keys[i]).err,
       rows |-> [i \in 1..Len(keys) |->
                   [category |-> keys[i],
                    total |-> total(keys[i]).v,
                    avg |-> mean(keys[i]).v]]]

\* summary.to_csv: the header line, then one line per summary row
CsvLines(rows) ==
  <<[category |-> StrV(category), total |-> StrV(TotalQuantity),
     avg |-> StrV(AveragePrice)]>> \o rows

\* output_file.strip() or "summary_report.csv"
OutputPath(output_file) ==
  IF Strip(output_file) = <<>> THEN defaultReport ELSE Strip(output_file)

NoFile == [exists |-> FALSE, lines |-> <<>>]

\* io is what the file system does to summary.to_csv(output_file):
\*   "ok"    every line is written;
\*   "open"  open() raises OSError and the path is not touched;
\*   "write" the file is opened (truncated), some of the lines, short of
\*           all, reach it and the next write raises OSError.
do_generate(output_file, io) ==
  LET s == Summarise(data)
      path == OutputPath(output_file)
      lines == CsvLines(s.rows)
  IN
  /\ alive
  /\ shown' = <<>>
  /\ UNCHANGED data
  /\ IF IsEmpty(data)
     THEN /\ cmd' = Cmd("generate", output_file)
          /\ out' = <<NoDataMsg>>
          /\ summary' = <<>>
          /\ UNCHANGED <<alive, raised, disk>>
     ELSE IF ~(necessary_columns \subseteq ColumnSet(data))
     THEN /\ cmd' = Cmd("generate", output_file)
          /\ out' = <<Msg("Missing required columns for generating a report.",
                          <<>>)>>
          /\ summary' = <<>>
          /\ UNCHANGED <<alive, raised, disk>>
     ELSE IF s.err
     THEN /\ cmd' = Cmd("generate", output_file)
          /\ out' = <<>>
          /\ summary' = <<>>
          /\ raised' = "TypeError"
          /\ alive' = FALSE
          /\ UNCHANGED disk
     ELSE /\ summary' = s.rows
          /\ IF io = "ok"
             THEN /\ cmd' = [Cmd("generate", output_file) EXCEPT !.io = io]
                  /\ disk' = [disk EXCEPT ![path] =
                                [exists |-> TRUE, lines |-> lines]]
                  /\ out' = <<Msg("summary.to_string()", <<>>),
                              Msg("Report saved to", path)>>
                  /\ UNCHANGED <<alive, raised>>
             ELSE /\ IF io = "open"
                     THEN /\ cmd' = [Cmd("generate", output_file) EXCEPT
                                       !.io = io]
                          /\ UNCHANGED disk
                     ELSE \E written \in 0..(Len(lines) - 1) :
                          /\ cmd' = [Cmd("generate", output_file) EXCEPT
                                       !.io = io, !.written = written]
                          /\ disk' = [disk EXCEPT ![path] =
                                        [exists |-> TRUE,
                                         lines |-> SubSeq(lines, 1, written)]]
                  /\ out' = <<Msg("summary.to_string()", <<>>)>>
                  /\ raised' = "OSError"
                  /\ alive' = FALSE

----------------------------------------------------------------------------
(* do_show_top                                                             *)

DefaultCount == 5

\* DataFrame.head(n): the first n rows; for n < 0, all but the last -n rows
HeadRows(rows, n) ==
  IF n >= 0 THEN SubSeq(rows, 1, IF n < Len(rows) THEN n ELSE Len(rows))
  ELSE SubSeq(rows, 1, Len(rows) + n)

do_show_top(count) ==
  LET parsed == IF count = <<>> THEN [ok |-> TRUE, n |-> DefaultCount]
                ELSE ParseInt(count)
  IN
  /\ alive
  /\ cmd' = Cmd("show_top", count)
  /\ summary' = <<>>
  /\ UNCHANGED <<data, alive, raised, disk>>
  /\ IF IsEmpty(data)
     THEN /\ out' = <<NoDataMsg>>
          /\ shown' = <<>>
     ELSE IF ~parsed.ok
     THEN /\ out' = <<Msg("Please specify a valid number of records.", <<>>)>>
          /\ shown' = <<>>
     ELSE /\ out' = <<Msg("head.to_string()", <<>>)>>
          /\ shown' = HeadRows(data.rows, parsed.n)

----------------------------------------------------------------------------
(* The session: Cmd.cmdloop dispatches one command at a time until an      *)
(* exception leaves a handler.                                             *)

Conditions ==
  { <<"c","a","t","e","g","o","r","y","=","a">>,
    <<" ","c","a","t","e","g","o","r","y"," ","="," ","B"," ">>,
    <<"c","a","t","e","g","o","r","y","=","Z">>,
    <<"q","u","a","n","t","i","t","y","=","1">>,
    <<"u","n","i","t","_","p","r","i","c","e","=","n","a","n">>,
    <<"c","a","t","e","g","o","r","y","=",".">>,
    <<"c","a","t","e","g","o","r","y","=","(">>,
    <<"c","a","t","e","g","o","r","y">>,
    <<"c","a","t","e","g","o","r","y","=","A","=","B">>,
    <<"m","i","s","s","i","n","g","=","x">>,
    <<"c","a","t","e","g","o","r","y","=">> }

Counts ==
  { <<>>, <<"2">>, <<"0">>, <<"-","1">>, <<"x">>, <<"7">>, <<" ">> }

OutputFiles == { <<>>, <<" ">>, <<" ">> \o defaultReport \o <<" ">> }

Paths == {OutputPath(f) : f \in OutputFiles}

Init ==
  /\ data = EmptyFrame
  /\ alive = TRUE
  /\ cmd = Cmd("start", <<>>)
  /\ out = <<>>
  /\ shown = <<>>
  /\ summary = <<>>
  /\ raised = "none"
  /\ disk = [p \in Paths |-> NoFile]

AddData == \E isdir \in BOOLEAN : \E listing \in Listings :
             /\ (~isdir => listing = <<>>)
             /\ do_add_data(isdir, listing)

Query == \E condition \in Conditions : do_query(condition)

Generate == \E output_file \in OutputFiles :
              \E io \in {"ok", "open", "write"} : do_generate(output_file, io)

ShowTop == \E count \in Counts : do_show_top(count)

Next == AddData \/ Query \/ Generate \/ ShowTop

Spec == Init /\ [][Next]_vars

----------------------------------------------------------------------------
(* Properties.  The state after a command holds the command (cmd), what it *)
(* printed (out, shown, summary), the exception that left it (raised) and  *)
(* the table and the report file as it left them.                          *)

Readers == {"query", "generate", "show_top"}

\* A load has succeeded: only pd.concat of at least one parsed frame gives
\* the table a column
Loaded == Len(data.columns) > 0

Said(text) == \E i \in 1..Len(out) : out[i].msg = text

IsCsvName(i) == EndsWith(Files[i].name, csvExt)

\* The .csv entries of a listing that parse, in listing order
Parseable(listing) ==
  SelectSeq(listing, LAMBDA i : IsCsvName(i) /\ Parsed[i].err = "ok")

\* The .csv entries that are empty or malformed
Unparseable(listing) ==
  SelectSeq(listing, LAMBDA i :
    IsCsvName(i) /\ Parsed[i].err \in {"EmptyDataError", "ParserError"})

\* The load of this command fails: not a directory, no .csv entry, or no
\* .csv entry that parses
LoadFails(c) ==
  \/ ~c.isdir
  \/ \A i \in 1..Len(c.listing) : ~IsCsvName(c.listing[i])
  \/ \A i \in 1..Len(c.listing) :
       IsCsvName(c.listing[i]) => Parsed[c.listing[i]].err # "ok"

\* C1: a failed load (path not a directory, no '.csv' entry, or every '.csv'
\* file failing to parse) leaves the table exactly as it was before the call.
C1_FailedLoadKeepsTable ==
  [][(cmd'.name = "add_data" /\ LoadFails(cmd')) => data' = data]_vars

\* A load over .csv files that all fail to parse, on a table holding rows
C1_Witness ==
  /\ cmd.name = "add_data"
  /\ cmd.isdir
  /\ \E i \in 1..Len(cmd.listing) : IsCsvName(cmd.listing[i])
  /\ LoadFails(cmd)
  /\ Said("No valid data loaded.")
  /\ Len(data.rows) > 0

\* Number of rows of the table before the rows of the k-th parsed file
RECURSIVE RowsBefore(_, _)
RowsBefore(files, k) ==
  IF k <= 1 THEN 0
  ELSE RowsBefore(files, k - 1) + Len(Files[files[k - 1]].lines)

\* Same cell, up to an integer stored as a float
SameCell(a, b) ==
  /\ a.s = b.s
  /\ a.n * b.d = b.n * a.d
  /\ a.k = b.k \/ (IsNum(a) /\ IsNum(b))

\* The load of this command is over .csv files that each parse or are empty
\* or malformed, and at least one parses
LoadMerges(c) ==
  /\ c.name = "add_data"
  /\ c.isdir
  /\ \A i \in 1..Len(c.listing) :
       IsCsvName(c.listing[i]) => Parsed[c.listing[i]].err # "UnicodeDecodeError"
  /\ Parseable(c.listing) # <<>>

C3_NoDataIffNeverLoaded ==
  cmd.name \in Readers => (out = <<NoDataMsg>> <=> ~Loaded)

\* C3 amended: query, generate and show_top report "no data", whatever the
\* argument, exactly when the table holds no row: always before a successful
\* load, and after one when the parsed files held no data line.
C3_NoDataIffNoRows ==
  /\ cmd.name \in Readers =>
       (out = <<NoDataMsg>> <=> (~Loaded \/ Len(data.rows) = 0))
  /\ ~Loaded => Len(data.rows) = 0

\* show_top with an argument that is no integer, after a load that parsed
\* only a header line
C3_Witness ==
  /\ cmd.name = "show_top"
  /\ ~ParseInt(cmd.text).ok
  /\ Loaded
  /\ out = <<NoDataMsg>>

\* The condition of the query command, cut as the claims describe it
EqCount(text) == Cardinality({i \in 1..Len(text) : text[i] = "="})
EqAt(text) == CHOOSE i \in 1..Len(text) : text[i] = "="
AskedColumn(text) == Strip(SubSeq(text, 1, EqAt(text) - 1))
AskedValue(text) == Strip(SubSeq(text, EqAt(text) + 1, Len(text)))

\* text holds value as a literal substring, letter case ignored
LiteralContains(text, value) ==
  \E off \in 0..(Len(text) - Len(value)) :
    \A j \in 1..Len(value) : LowerChar(value[j]) = LowerChar(text[off + j])

\* C4 as stated: on a non-empty table, query(column, value) for a column of
\* the schema shows exactly the rows whose stringified cell holds the value
\* as a literal, case-insensitive substring, in table order; no match is
\* reported as "no matches" and is no error.
C4_QueryLiteralSubstring ==
  (/\ cmd.name = "query"
   /\ Len(data.rows) > 0
   /\ EqCount(cmd.text) = 1
   /\ AskedColumn(cmd.text) \in ColumnSet(data)) =>
    LET col == AskedColumn(cmd.text)
        val == AskedValue(cmd.text)
        want == SelectSeq(data.rows,
                  LAMBDA r : LiteralContains(Str(r[col]), val))
    IN  /\ raised = "none"
        /\ shown = want
        /\ want = <<>> => out = <<Msg("No matching results.", <<>>)>>

\* C5 as stated: for an empty or integer count, show_top on a non-empty table
\* shows the first min(count, size) rows, count being 5 when the input is
\* empty, and shows no row and no error for every count <= 0.
C5_TopNClamps ==
  (/\ cmd.name = "show_top"
   /\ Len(data.rows) > 0
   /\ cmd.text = <<>> \/ ParseInt(cmd.text).ok) =>
    LET n == IF cmd.text = <<>> THEN 5 ELSE ParseInt(cmd.text).n
        m == IF n <= 0 THEN 0
             ELSE IF n < Len(data.rows) THEN n ELSE Len(data.rows)
    IN  /\ shown = SubSeq(data.rows, 1, m)
        /\ ~Said("Please specify a valid number of records.")

SummaryKeys == [i \in 1..Len(summary) |-> summary[i].category]

\* generate got as far as printing the summary of a table with rows
Summarised ==
  /\ cmd.name = "generate"
  /\ Len(data.rows) > 0
  /\ necessary_columns \subseteq ColumnSet(data)
  /\ Said("summary.to_string()")

\* C6 as stated: the summary lists the categories in the order in which each
\* first appears in the table.
C6_SummaryInFirstAppearanceOrder ==
  Summarised =>
    SummaryKeys = SelectSeq(Distinct(Column(data, category)),
                            LAMBDA v : v # NaN)

\* C6 amended: the summary lists each distinct category of the table once,
\* in ascending order of the category value, whatever the order in which the
\* categories first appear.
C6_SummaryInAscendingOrder ==
  Summarised =>
    /\ {SummaryKeys[i] : i \in 1..Len(summary)}
         = {data.rows[i][category] : i \in 1..Len(data.rows)} \ {NaN}
    /\ \A i, j \in 1..Len(summary) :
         i < j => /\ SummaryKeys[i] # SummaryKeys[j]
                  /\ TextLess(SummaryKeys[i].s, SummaryKeys[j].s)

\* A summary of a table whose first row is not of the least category
C6_Witness ==
  /\ Summarised
  /\ Len(summary) >= 2
  /\ data.rows[1][category] # summary[1].category

\* C7 as stated: on a non-empty table with category, quantity and unit_price,
\* generate produces one summary row per distinct category, its Total
\* Quantity the sum of quantity with non-numeric or absent values counted as
\* 0, its Average Price the mean of unit_price over the numeric values.
C7_SummaryCoercesToNumbers ==
  (/\ cmd.name = "generate"
   /\ Len(data.rows) > 0
   /\ necessary_columns \subseteq ColumnSet(data)) =>
    LET cats == {data.rows[i][category] : i \in 1..Len(data.rows)}
        of(c) == SelectSeq(data.rows, LAMBDA r : r[category] = c)
        nums(c, col) == SelectSeq([i \in 1..Len(of(c)) |-> of(c)[i][col]],
                                  LAMBDA v : IsNum(v))
    IN  /\ Len(summary) = Cardinality(cats)
        /\ \A c \in cats :
             \E i \in 1..Len(summary) :
               LET row == summary[i]
                   prices == nums(c, unit_price)
               IN  /\ row.category = c
                   /\ IsNum(row.total)
                   /\ row.total.n = SumN(nums(c, quantity)) * row.total.d
                   /\ IF prices = <<>> THEN row.avg = NaN
                      ELSE /\ IsNum(row.avg)
                           /\ row.avg.n * Len(prices) = SumN(prices) * row.avg.d

\* C8: on a non-empty table, a condition without exactly one '=' is answered
\* "incorrect format", and a well-formed condition whose trimmed column is
\* not in the schema is answered "column not found"; no row is shown.
C8_QueryRejectsBadCondition ==
  (cmd.name = "query" /\ Len(data.rows) > 0) =>
    /\ EqCount(cmd.text) # 1 =>
         /\ out = <<Msg("Incorrect format. Use 'query <column=value>'.", <<>>)>>
         /\ shown = <<>>
    /\ (EqCount(cmd.text) = 1
        /\ AskedColumn(cmd.text) \notin ColumnSet(data)) =>
         /\ out = <<Msg("Column not found.", AskedColumn(cmd.text))>>
         /\ shown = <<>>

\* A condition with two '=' on a table with rows
C8_Witness ==
  /\ cmd.name = "query"
  /\ Len(data.rows) > 0
  /\ EqCount(cmd.text) = 2
  /\ Said("Incorrect format. Use 'query <column=value>'.")

\* C9 as stated, for the three commands it names: query, generate and
\* show_top never change the table, and none of them ends the session,
\* whether it succeeds or fails.
C9_ReadersKeepTableAndSessionGoesOn ==
  [][cmd'.name \in Readers => (data' = data /\ alive')]_vars

\* C10 as stated: after generate has reached the write, either the output
\* file holds the whole summary CSV and success is reported, or the write
\* failed, is not reported as success, and left no partly written file.
C10_WriteAllOrNothing ==
  (cmd.name = "generate" /\ cmd.io # "none") =>
    LET f == disk[OutputPath(cmd.text)]
        full == CsvLines(summary)
        partial == /\ cmd.io = "write"
                   /\ f.exists
                   /\ Len(f.lines) < Len(full)
    IN  \/ /\ f.exists
           /\ f.lines = full
           /\ Said("Report saved to")
        \/ /\ raised = "OSError"
           /\ ~Said("Report saved to")
           /\ ~partial

====
